---- MODULE Spec2Model ----
(***************************************************************************)
(* State machine of one run of runShopifySync (src/server.js): the         *)
(* orchestrator, the three stage runners, the GraphQL fetcher with its     *)
(* retry loop, the job status record written through updateIntegration,    *)
(* and the terminal notification.                                          *)
(*                                                                         *)
(* Every await on a network call is one action; the outcome of the call is *)
(* an input of the action.  The pacing delays (500 ms between pages,       *)
(* 100 ms every 10 records) change no state and are not modelled; the      *)
(* backoff waits of the retry loop are counted.  Timestamps (last_sync,    *)
(* last_updated) are left out of the job status record.  The source's      *)
(* page chain of the active resource is revealed page by page as the       *)
(* source serves it.  Of the destination's entity records the state keeps  *)
(* those of the kind the active stage creates (by external id), and what   *)
(* the bulk loads of updateCustomerTotals returned.                        *)
(***************************************************************************)
EXTENDS Integers, Sequences, FiniteSets, TLC

\* ---------------------------------------------------------------- bounds
MaxPages == 2
MaxNodes == 2
MaxCustomers == 2
MaxInteractions == 2

\* ---------------------------------------------------- program constants
Retries == 3
CheckpointEvery == 100

\* ------------------------------------------------------------ vocabulary
Stages == {"customers", "orders", "products"}
NoStage == "none"
NullCursor == 0
NoId == <<>>
Null == <<>>

\* outcome of one HTTP call made with fetch: a 2xx response, a non-2xx
\* response, or a rejected promise (transport failure)
HttpOutcomes == {"ok", "http_error", "transport"}
\* outcome of one GraphQL attempt: the three above, or a 2xx response whose
\* body carries errors (with or without a THROTTLED extension code)
QueryOutcomes == HttpOutcomes \cup {"throttled", "api_error"}

VARIABLES
    pc,           \* position of the run
    accessToken,  \* local accessToken is truthy
    storeUrl,     \* local storeUrl is truthy
    job,          \* the job status record at the destination
    stage,        \* the stage runner that is executing
    hasNextPage, cursor, all, totalSynced, i,   \* locals of the stage runner
    attempt,      \* loop variable of shopifyGraphQLQuery
    synced,       \* customersSynced, ordersSynced, productsSynced
    src,          \* pages of the active resource the source has served
    returned,     \* stages that returned normally
    fatal,        \* what threw into the catch block of runShopifySync
    lastOp,       \* the most recent outgoing call
    lastWrite,    \* payload of the most recent updateIntegration call
    httpAttempts, \* HTTP attempts of the current shopifyGraphQLQuery call
    waits,        \* backoff waits of the current shopifyGraphQLQuery call
    hits,         \* per served page: how often it was returned
    created,      \* ids passed to createRecord in the current stage
    okCreates,    \* createRecord calls of the current stage answered ok
    ops,          \* kinds of calls issued so far
    connWrites,   \* attempts of the connected write
    errWrites,    \* attempts of the error write
    aggRuns,      \* calls of updateCustomerTotals
    mails,        \* notifications attempted
    dest,         \* external ids of the destination's records of the kind
                  \* the active stage creates, in order of creation
    prior,        \* what dest was when the active stage was entered
    customers, interactions, customerTotals, updated,
                  \* locals of updateCustomerTotals
    nextCustomer, \* customers the patch loop has handled
    patched,      \* bodies of the PATCH calls of updateCustomerTotals
    self,         \* the run whose call of runShopifySync is executing
    parked,       \* the frame of the run suspended at an await, if any
    integrations, \* the destination's job status records, by integration
                  \* id, as of the last suspension of the run they belong to
    entitiesAt    \* the destination's entity records, by scope and kind,
                  \* as of the last suspension of the run that creates them

vars == <<pc, accessToken, storeUrl, job, stage, hasNextPage, cursor, all,
          totalSynced, i, attempt, synced, src, returned, fatal, lastOp,
          lastWrite, httpAttempts, waits, hits, created, okCreates, ops,
          connWrites, errWrites, aggRuns, mails, dest, prior, customers,
          interactions, customerTotals, updated, nextCustomer, patched,
          self, parked, integrations, entitiesAt>>

stageLocals == <<hasNextPage, cursor, all, totalSynced, i, attempt>>
stageGhosts == <<src, httpAttempts, waits, hits, created, okCreates>>
counters == <<connWrites, errWrites, aggRuns, mails>>
destStore == <<dest, prior>>
concVars == <<self, parked, integrations, entitiesAt>>
aggLocals == <<customers, interactions, customerTotals, updated,
               nextCustomer, patched>>

\* ------------------------------------------------------------- helpers
\* config.accessToken || config.apiKey
TokenOf(cfg) == cfg.accessToken \/ cfg.apiKey

\* variant: the check written with && instead of ||
ConfigIncomplete_Both(token, url) == ~token /\ ~url

\* if (!accessToken || !storeUrl) throw
ConfigIncomplete(token, url) == ~token \/ ~url

Configs == [accessToken : BOOLEAN, apiKey : BOOLEAN, storeUrl : BOOLEAN]

\* fetch rejects
FetchRejects(r) == r = "transport"
\* response.ok
ResponseOk(r) == r \in {"ok", "throttled", "api_error"}
\* updateIntegration throws: fetch rejected or !response.ok
UpdateThrows(w) == FetchRejects(w) \/ ~ResponseOk(w)

\* PATCH of the job status record: the fields of data replace the record's
Patch(rec, data) ==
    [f \in DOMAIN rec |-> IF f \in DOMAIN data THEN data[f] ELSE rec[f]]

\* the record after updateIntegration(data) with outcome w
UpdateIntegration(rec, data, w) == IF w = "ok" THEN Patch(rec, data) ELSE rec

StepOnly(step) == [sync_progress |-> <<[current_step |-> step]>>]
StepName(s) == CASE s = "customers" -> "Syncing customers"
                 [] s = "orders" -> "Syncing orders"
                 [] s = "products" -> "Syncing products"
\* variant: the two counts in each other's place
StageProgress_Swapped(s, total, processed) ==
    [sync_progress |-> <<[current_step |-> StepName(s),
                          total |-> processed, processed |-> total]>>]

\* sync_progress of a stage: current_step, <resource>_total,
\* <resource>_processed
StageProgress(s, total, processed) ==
    [sync_progress |-> <<[current_step |-> StepName(s),
                          total |-> total, processed |-> processed]>>]

TotalRecords(c, o, p) == c + o + p
\* variant: the connected write without clearing the checkpoint
ConnectedData_NoClear ==
    [status |-> "connected",
     total_records |-> TotalRecords(synced["customers"], synced["orders"],
                                    synced["products"])]

\* the data of the connected write (lines 101-106)
ConnectedData == [status |-> "connected",
                  total_records |-> TotalRecords(synced["customers"],
                                                 synced["orders"],
                                                 synced["products"]),
                  sync_progress |-> Null]
\* variant: the error write without clearing the checkpoint
ErrorData_NoClear == [status |-> "error"]
ErrorData == [status |-> "error", sync_progress |-> Null]

\* variant: products synced before orders
StageAfter_Swapped(s) == CASE s = "customers" -> "products"
                           [] s = "products" -> "orders"
                           [] s = "orders" -> NoStage

\* the orchestrator's sequence of stage calls
StageAfter(s) == CASE s = "customers" -> "orders"
                   [] s = "orders" -> "products"
                   [] s = "products" -> NoStage

\* id.split('/').pop()
ShopifyId(gid) == gid[Len(gid)]
Gid(s, n) == <<"gid:", "", "shopify", s, n>>

\* variant: an order without a customer is not skipped
Skip_AnyOrder(s, node) == node.isNull \/ node.id = NoId

\* if (!node || !node.id) continue;  orders: || !order.customer
Skip(s, node) ==
    \/ node.isNull
    \/ node.id = NoId
    \/ (s = "orders" /\ ~node.customer)

\* variant: the page replaces the list instead of being appended
Fold_Replace(acc, edges) == edges

\* allX.push(...edges)
Fold(acc, edges) == acc \o edges

\* throttleError && attempt < retries
ThrottleRetry(r, a) == r = "throttled" /\ a < Retries
\* variant: the comparison off by one
Rethrow_Late(a) == a = Retries + 1
\* if (attempt === retries) throw error
Rethrow(a) == a = Retries
\* variant: a retry that is not counted
NextAttempt_Stuck(a) == a
\* attempt++ of the retry loop
NextAttempt(a) == a + 1
\* variant: the catch of the loop body rethrows
CatchCreate_Rethrow == "catch"
\* the catch of the persist loop's body logs and lets the loop go on
CatchCreate == "persist"

\* variant: a persist loop that does not advance
NextIndex_Stay(k) == k
\* i++ of the persist loop
NextIndex(k) == k + 1

\* variant: the fetch loop left after its first page
LoopAgain_Never(h) == FALSE
\* } while (hasNextPage)
LoopAgain(h) == h

\* variant: a catch block that ends without the failure notification
AfterErrorWrite_NoMail == "done"
\* the failure notification follows the error write (lines 149-177)
AfterErrorWrite == "notify_fail"

\* variant: sendEmail without its try/catch
SendEmailThrows_Unguarded(r) == FetchRejects(r)
\* sendEmail catches the failure of its fetch and logs it
SendEmailThrows(r) == FALSE

\* totalSynced % 100 === 0 || i === all.length - 1
CheckpointDue(n, idx, len) == n % CheckpointEvery = 0 \/ idx = len - 1

\* variant: a create that leaves an existing record in place (an upsert)
Store_Upsert(d, id) ==
    IF \E j \in 1..Len(d) : d[j] = id THEN d ELSE Append(d, id)

\* POST /entities/<kind>: the destination adds a record, whatever it holds
Store(d, id) == Append(d, id)

\* ------------------------------------------------- updateCustomerTotals
CustomerIds == {"c1", "c2"}
NoCustomerId == ""
Values == {-5, 0, 5}

\* customerTotals[id] || 0
TotalOf(totals, id) == IF id \in DOMAIN totals THEN totals[id] ELSE 0

\* variant: the value replaces the total instead of being added to it
AddValue_Overwrite(old, v) == v

\* (customerTotals[id] || 0) + interaction.value
AddValue(old, v) == old + v

\* interactions.forEach(...) over the loaded interactions (lines 644-648)
RECURSIVE Accumulate(_, _)
Accumulate(totals, xs) ==
    IF xs = <<>> THEN totals
    ELSE LET x == Head(xs)
             next == IF x.customer_id # NoCustomerId /\ x.value # 0
                     THEN [c \in DOMAIN totals \cup {x.customer_id} |->
                             IF c = x.customer_id
                             THEN AddValue(TotalOf(totals, c), x.value)
                             ELSE totals[c]]
                     ELSE totals
         IN Accumulate(next, Tail(xs))

EmptyTotals == [c \in {} |-> 0]

\* if (total > 0)
PatchDue(total) == total > 0

RECURSIVE SeqsUpTo(_, _)
SeqsUpTo(S, n) ==
    IF n = 0 THEN {<<>>}
    ELSE SeqsUpTo(S, n - 1)
         \cup {Append(q, x) : q \in {p \in SeqsUpTo(S, n - 1) : Len(p) = n - 1},
                              x \in S}

\* the lists the two bulk loads may return
CustomerLists ==
    {[j \in 1..Len(q) |-> [id |-> j, customer_id |-> q[j]]] :
        q \in SeqsUpTo(CustomerIds, MaxCustomers)}
InteractionLists ==
    SeqsUpTo([customer_id : CustomerIds \cup {NoCustomerId}, value : Values],
             MaxInteractions)
Loads == [customers : CustomerLists, interactions : InteractionLists]

\* the lists returned to a run to an empty destination, and to a run that
\* finds two customers of whom one has a purchase
RunLoads ==
    {[customers |-> <<>>, interactions |-> <<>>],
     [customers |-> <<[id |-> 1, customer_id |-> "c1"],
                      [id |-> 2, customer_id |-> "c2"]>>,
      interactions |-> <<[customer_id |-> "c1", value |-> 5]>>]}

\* what the destination may hold of a kind when a stage is entered: nothing,
\* or the records an earlier run created from the source's first n records
FreshStore == <<>>
PriorStores == {[j \in 1..n |-> j] : n \in 0..MaxNodes}

\* ---------------------------------------------------- concurrent runs
RunIds == {1, 2}
Other(run) == CHOOSE r \in RunIds : r # run
NoFrame == <<>>

\* variant: every run addresses the job status record of integration 1
IntegrationId_Shared(run) == 1
\* integrationId and accountId of the request a run was started for (lines
\* 23, 34): runs are accepted for distinct ids
IntegrationId(run) == run
AccountId(run) == run

\* ?account_id=${accountId}&integration_id=${integrationId}, and the same
\* two fields in the body of each create
Scope(run) == [account_id |-> AccountId(run),
               integration_id |-> IntegrationId(run)]
Scopes == {Scope(r) : r \in RunIds}

PendingJob == [status |-> "pending", total_records |-> -1,
               sync_progress |-> Null]

\* what the destination returns to the bulk loads with a scope
ListRecords(scope) ==
    IF scope.account_id = 1
    THEN [customers |-> <<[id |-> 1, customer_id |-> "c1"],
                          [id |-> 2, customer_id |-> "c2"]>>,
          interactions |-> <<[customer_id |-> "c1", value |-> 5]>>]
    ELSE [customers |-> <<[id |-> 3, customer_id |-> "c2"]>>,
          interactions |-> <<[customer_id |-> "c2", value |-> 5]>>]

\* ------------------------------------------------------------ the source
RECURSIVE Concat(_)
Concat(pages) ==
    IF pages = <<>> THEN <<>>
    ELSE pages[1].edges \o Concat(Tail(pages))

NodeCount(pages) == Len(Concat(pages))

\* the shapes of a node the source may return in an edge with number n
Nodes(s, n) ==
    {[isNull |-> FALSE, id |-> Gid(s, n), customer |-> TRUE],
     [isNull |-> FALSE, id |-> NoId, customer |-> TRUE],
     [isNull |-> TRUE, id |-> NoId, customer |-> FALSE]}
    \cup (IF s = "orders"
          THEN {[isNull |-> FALSE, id |-> Gid(s, n), customer |-> FALSE]}
          ELSE {})

RECURSIVE EdgeSeqs(_, _, _)
EdgeSeqs(s, base, len) ==
    IF len = 0 THEN {<<>>}
    ELSE {Append(es, [node |-> nd]) : es \in EdgeSeqs(s, base, len - 1),
                           nd \in Nodes(s, base + len)}

\* the page with this cursor is the page after the one that handed it out
PageIndex(c) == c + 1

\* the pages the source may answer a request with cursor c with
Serve(s, c) ==
    IF PageIndex(c) <= Len(src) THEN {src[PageIndex(c)]}
    ELSE {[edges |-> es, hasNextPage |-> h, endCursor |-> PageIndex(c)] :
             es \in UNION {EdgeSeqs(s, NodeCount(src), n) : n \in 0..(MaxNodes - NodeCount(src))},
             h \in IF PageIndex(c) < MaxPages THEN BOOLEAN ELSE {FALSE}}

Op(kind, s, c, r) ==
    [kind |-> kind, stage |-> s, cursor |-> c, outcome |-> r]

\* ------------------------------------------------------------------ Init
Init ==
    /\ pc = "idle"
    /\ accessToken = FALSE
    /\ storeUrl = FALSE
    /\ job = PendingJob
    /\ stage = NoStage
    /\ hasNextPage = TRUE
    /\ cursor = NullCursor
    /\ all = <<>>
    /\ totalSynced = 0
    /\ i = 0
    /\ attempt = 0
    /\ synced = [s \in Stages |-> 0]
    /\ src = <<>>
    /\ returned = {}
    /\ fatal = "none"
    /\ lastOp = [kind |-> "none", stage |-> NoStage, cursor |-> NullCursor,
                 outcome |-> "none"]
    /\ lastWrite = <<>>
    /\ httpAttempts = 0
    /\ waits = 0
    /\ hits = <<>>
    /\ created = <<>>
    /\ okCreates = 0
    /\ ops = {}
    /\ connWrites = 0
    /\ errWrites = 0
    /\ aggRuns = 0
    /\ mails = <<>>
    /\ dest = <<>>
    /\ prior = <<>>
    /\ customers = <<>>
    /\ interactions = <<>>
    /\ customerTotals = EmptyTotals
    /\ updated = 0
    /\ nextCustomer = 0
    /\ patched = <<>>
    /\ self = 1
    /\ parked = NoFrame
    /\ integrations = [n \in {IntegrationId(r) : r \in RunIds} |-> PendingJob]
    /\ entitiesAt = [sc \in Scopes |-> [s \in Stages |-> <<>>]]

\* --------------------------------------------------------------- actions
\* runShopifySync is called: lines 44-49
Start(cfg) ==
    /\ pc = "idle"
    /\ accessToken' = TokenOf(cfg)
    /\ storeUrl' = cfg.storeUrl
    /\ IF ConfigIncomplete(TokenOf(cfg), cfg.storeUrl)
       THEN pc' = "catch" /\ fatal' = "config"
       ELSE pc' = "testing" /\ fatal' = fatal
    /\ UNCHANGED <<concVars, aggLocals, destStore, lastWrite, job, stage, stageLocals, synced, returned, lastOp,
                   stageGhosts, ops, counters>>

\* lines 54-59: the testing-connection checkpoint
TestingCheckpoint(w) ==
    /\ pc = "testing"
    /\ job' = UpdateIntegration(job, StepOnly("Testing connection"), w)
    /\ lastWrite' = StepOnly("Testing connection")
    /\ lastOp' = Op("checkpoint", NoStage, NullCursor, w)
    /\ ops' = ops \cup {"testing_checkpoint"}
    /\ IF UpdateThrows(w)
       THEN pc' = "catch" /\ fatal' = "checkpoint"
       ELSE pc' = "connect" /\ fatal' = fatal
    /\ UNCHANGED <<concVars, aggLocals, destStore, accessToken, storeUrl, stage, stageLocals, synced,
                   returned, stageGhosts, counters>>

\* lines 62-73: the connectivity call; on success syncCustomers is entered
\* (lines 242-245, 274)
Connect(r, p) ==
    /\ pc = "connect"
    /\ lastOp' = Op("shop", NoStage, NullCursor, r)
    /\ ops' = ops \cup {"shop"}
    /\ IF FetchRejects(r) \/ ~ResponseOk(r)
       THEN /\ pc' = "catch" /\ fatal' = "connectivity" /\ stage' = stage
            /\ UNCHANGED destStore
       ELSE /\ pc' = "fetch" /\ fatal' = fatal /\ stage' = "customers"
            /\ dest' = p /\ prior' = p
    /\ UNCHANGED <<concVars, aggLocals, lastWrite, accessToken, storeUrl, job, stageLocals, synced, returned,
                   stageGhosts, counters>>

\* one iteration of the retry loop of shopifyGraphQLQuery (lines 202-237)
\* inside the do-while of the stage (lines 276-286)
QueryAttempt(r) ==
    /\ pc = "fetch"
    /\ attempt <= Retries
    /\ lastOp' = Op("query", stage, cursor, r)
    /\ IF r = "ok"
       THEN \E page \in Serve(stage, cursor) :
              /\ src' = IF PageIndex(cursor) <= Len(src) THEN src
                        ELSE Append(src, page)
              /\ hits' = IF PageIndex(cursor) <= Len(src)
                         THEN [hits EXCEPT ![PageIndex(cursor)] = @ + 1]
                         ELSE Append(hits, 1)
              /\ hasNextPage' = page.hasNextPage
              /\ cursor' = page.endCursor
              /\ all' = Fold(all, page.edges)
              /\ attempt' = 0
              /\ httpAttempts' = 0
              /\ waits' = 0
              /\ pc' = IF LoopAgain(page.hasNextPage) THEN "fetch" ELSE "count"
              /\ fatal' = fatal
              /\ ops' = ops \cup {"query"}
       ELSE /\ UNCHANGED <<src, hits, hasNextPage, cursor, all>>
            /\ httpAttempts' = httpAttempts + 1
            /\ IF ThrottleRetry(r, attempt) \/ ~Rethrow(attempt)
               THEN /\ waits' = waits + 1
                    /\ attempt' = NextAttempt(attempt)
                    /\ pc' = pc
                    /\ fatal' = fatal
                    /\ ops' = ops \cup {"query", "backoff"}
               ELSE /\ waits' = waits
                    /\ attempt' = attempt
                    /\ pc' = "catch"
                    /\ fatal' = "fetch"
                    /\ ops' = ops \cup {"query"}
    /\ UNCHANGED <<concVars, aggLocals, destStore, accessToken, storeUrl, job, stage, totalSynced, i, synced,
                   returned, lastWrite, created, okCreates, counters>>

\* the initial checkpoint of a stage (lines 292-299, 421-428, 554-561)
InitialCheckpoint(w) ==
    /\ pc = "count"
    /\ job' = UpdateIntegration(job, StageProgress(stage, Len(all), 0), w)
    /\ lastWrite' = StageProgress(stage, Len(all), 0)
    /\ lastOp' = Op("checkpoint", stage, NullCursor, w)
    /\ ops' = ops \cup {"stage_checkpoint"}
    /\ IF UpdateThrows(w)
       THEN pc' = "catch" /\ fatal' = "checkpoint"
       ELSE pc' = "persist" /\ fatal' = fatal
    /\ UNCHANGED <<concVars, aggLocals, destStore, accessToken, storeUrl, stage, stageLocals, synced,
                   returned, stageGhosts, counters>>

\* the continue of the persist loop (lines 306, 434, 567)
SkipRecord ==
    /\ pc = "persist"
    /\ i < Len(all)
    /\ Skip(stage, all[i + 1].node)
    /\ i' = NextIndex(i)
    /\ UNCHANGED <<concVars, aggLocals, destStore, lastWrite, pc, accessToken, storeUrl, job, stage, hasNextPage, cursor,
                   all, totalSynced, attempt, synced, returned, fatal, lastOp,
                   stageGhosts, ops, counters>>

\* the createRecord call of the persist loop (lines 335-345, 357-359)
CreateRecord(r) ==
    /\ pc = "persist"
    /\ i < Len(all)
    /\ ~Skip(stage, all[i + 1].node)
    /\ lastOp' = Op("create", stage, NullCursor, r)
    /\ ops' = ops \cup {"create"}
    /\ created' = Append(created, ShopifyId(all[i + 1].node.id))
    /\ okCreates' = IF r = "ok" THEN okCreates + 1 ELSE okCreates
    /\ dest' = IF r = "ok" THEN Store(dest, ShopifyId(all[i + 1].node.id))
               ELSE dest
    /\ IF FetchRejects(r)
       THEN /\ totalSynced' = totalSynced
            /\ i' = NextIndex(i)
            /\ pc' = CatchCreate
       ELSE /\ totalSynced' = totalSynced + 1
            /\ IF CheckpointDue(totalSynced + 1, i, Len(all))
               THEN pc' = "checkpoint" /\ i' = i
               ELSE pc' = "persist" /\ i' = NextIndex(i)
    /\ UNCHANGED <<concVars, aggLocals, prior, lastWrite, accessToken, storeUrl, job, stage, hasNextPage, cursor,
                   all, attempt, synced, returned, fatal, src,
                   httpAttempts, waits, hits, counters>>

\* the checkpoint inside the try of the persist loop (lines 347-356): its
\* failure is caught by the catch of the loop body
ProgressCheckpoint(w) ==
    /\ pc = "checkpoint"
    /\ job' = UpdateIntegration(job,
                  StageProgress(stage, Len(all), totalSynced), w)
    /\ lastWrite' = StageProgress(stage, Len(all), totalSynced)
    /\ lastOp' = Op("checkpoint", stage, NullCursor, w)
    /\ ops' = ops \cup {"stage_checkpoint"}
    /\ i' = NextIndex(i)
    /\ pc' = "persist"
    /\ UNCHANGED <<concVars, aggLocals, destStore, accessToken, storeUrl, stage, hasNextPage, cursor, all,
                   totalSynced, attempt, synced, returned, fatal,
                   stageGhosts, counters>>

\* return totalSynced (lines 366, 491, 621); the orchestrator enters the next
\* stage runner, whose locals start afresh
StageReturn(p) ==
    /\ pc = "persist"
    /\ i = Len(all)
    /\ synced' = [synced EXCEPT ![stage] = totalSynced]
    /\ returned' = returned \cup {stage}
    /\ stage' = StageAfter(stage)
    /\ pc' = IF StageAfter(stage) = NoStage THEN "finalizing" ELSE "fetch"
    /\ hasNextPage' = TRUE
    /\ cursor' = NullCursor
    /\ all' = <<>>
    /\ totalSynced' = 0
    /\ i' = 0
    /\ attempt' = 0
    /\ src' = <<>>
    /\ hits' = <<>>
    /\ created' = <<>>
    /\ okCreates' = 0
    /\ dest' = IF StageAfter(stage) = NoStage THEN <<>> ELSE p
    /\ prior' = dest'
    /\ UNCHANGED <<concVars, aggLocals, lastWrite, accessToken, storeUrl, job, fatal, lastOp,
                   httpAttempts, waits, ops, counters>>

\* lines 89-94: the finalizing checkpoint
FinalizingCheckpoint(w) ==
    /\ pc = "finalizing"
    /\ job' = UpdateIntegration(job, StepOnly("Finalizing sync"), w)
    /\ lastWrite' = StepOnly("Finalizing sync")
    /\ lastOp' = Op("checkpoint", NoStage, NullCursor, w)
    /\ ops' = ops \cup {"finalizing_checkpoint"}
    /\ IF UpdateThrows(w)
       THEN pc' = "catch" /\ fatal' = "checkpoint"
       ELSE pc' = "aggregate" /\ fatal' = fatal
    /\ UNCHANGED <<concVars, aggLocals, destStore, accessToken, storeUrl, stage, stageLocals, synced,
                   returned, stageGhosts, counters>>

\* line 96: updateCustomerTotals is entered; r is the outcome of its bulk
\* loads (lines 629-639), whose failure is rethrown (lines 677-680), and ld
\* the two lists they return; the totals are computed (lines 643-648)
Aggregate(r, ld) ==
    /\ pc = "aggregate"
    /\ aggRuns' = aggRuns + 1
    /\ lastOp' = Op("aggregate", NoStage, NullCursor, r)
    /\ ops' = ops \cup {"aggregate"}
    /\ IF r = "ok"
       THEN /\ pc' = "patching" /\ fatal' = fatal
            /\ customers' = ld.customers
            /\ interactions' = ld.interactions
            /\ customerTotals' = Accumulate(EmptyTotals, ld.interactions)
       ELSE /\ pc' = "catch" /\ fatal' = "bulk_load"
            /\ UNCHANGED <<customers, interactions, customerTotals>>
    /\ UNCHANGED <<concVars, lastWrite, accessToken, storeUrl, job, stage, stageLocals, synced,
                   returned, stageGhosts, connWrites, errWrites,
                   mails, destStore, updated, nextCustomer, patched>>

\* the patch loop (lines 651-668) at a customer whose total exceeds zero: the
\* PATCH of total_value, whose failure is caught and logged
PatchCustomer(r) ==
    /\ pc = "patching"
    /\ nextCustomer < Len(customers)
    /\ LET customer == customers[nextCustomer + 1]
           total == TotalOf(customerTotals, customer.customer_id)
       IN /\ PatchDue(total)
          /\ patched' = Append(patched, [id |-> customer.id,
                                          total_value |-> total])
    /\ updated' = IF FetchRejects(r) THEN updated ELSE updated + 1
    /\ nextCustomer' = nextCustomer + 1
    /\ lastOp' = Op("patch", NoStage, NullCursor, r)
    /\ ops' = ops \cup {"patch"}
    /\ UNCHANGED <<concVars, pc, accessToken, storeUrl, job, stage, stageLocals, synced,
                   returned, fatal, lastWrite, stageGhosts, counters,
                   destStore, customers, interactions, customerTotals>>

\* the patch loop at a customer whose total does not exceed zero
PassCustomer ==
    /\ pc = "patching"
    /\ nextCustomer < Len(customers)
    /\ ~PatchDue(TotalOf(customerTotals,
                         customers[nextCustomer + 1].customer_id))
    /\ nextCustomer' = nextCustomer + 1
    /\ UNCHANGED <<concVars, pc, accessToken, storeUrl, job, stage, stageLocals, synced,
                   returned, fatal, lastOp, lastWrite, stageGhosts, ops,
                   counters, destStore, customers, interactions,
                   customerTotals, updated, patched>>

\* return updated (line 676); the caller does not use the value
AggregateReturn ==
    /\ pc = "patching"
    /\ nextCustomer = Len(customers)
    /\ pc' = "complete"
    /\ customers' = <<>>
    /\ interactions' = <<>>
    /\ customerTotals' = EmptyTotals
    /\ updated' = 0
    /\ nextCustomer' = 0
    /\ patched' = <<>>
    /\ UNCHANGED <<concVars, accessToken, storeUrl, job, stage, stageLocals, synced,
                   returned, fatal, lastOp, lastWrite, stageGhosts, ops,
                   counters, destStore>>

\* lines 101-106: the connected write
Complete(w) ==
    /\ pc = "complete"
    /\ connWrites' = connWrites + 1
    /\ job' = UpdateIntegration(job, ConnectedData, w)
    /\ lastWrite' = ConnectedData
    /\ lastOp' = Op("complete", NoStage, NullCursor, w)
    /\ ops' = ops \cup {"complete"}
    /\ IF UpdateThrows(w)
       THEN pc' = "catch" /\ fatal' = "complete_write"
       ELSE pc' = "notify_ok" /\ fatal' = fatal
    /\ UNCHANGED <<concVars, aggLocals, destStore, accessToken, storeUrl, stage, stageLocals, synced,
                   returned, stageGhosts, errWrites, aggRuns, mails>>

\* lines 109-136 with sendEmail (lines 684-697): failures are swallowed
NotifySuccess(r) ==
    /\ pc = "notify_ok"
    /\ mails' = Append(mails, "success")
    /\ lastOp' = Op("email", NoStage, NullCursor, r)
    /\ ops' = ops \cup {"email"}
    /\ IF SendEmailThrows(r)
       THEN pc' = "catch" /\ fatal' = "notification"
       ELSE pc' = "done" /\ fatal' = fatal
    /\ UNCHANGED <<concVars, aggLocals, destStore, lastWrite, accessToken, storeUrl, job, stage, stageLocals, synced,
                   returned, stageGhosts, connWrites,
                   errWrites, aggRuns>>

\* lines 144-147: the error write, its failure absorbed by .catch; the frames
\* of the calls made inside the try are gone when the catch block runs
ErrorWrite(w) ==
    /\ pc = "catch"
    /\ errWrites' = errWrites + 1
    /\ job' = UpdateIntegration(job, ErrorData, w)
    /\ lastWrite' = ErrorData
    /\ lastOp' = Op("error", NoStage, NullCursor, w)
    /\ ops' = ops \cup {"error"}
    /\ pc' = AfterErrorWrite
    /\ hasNextPage' = TRUE
    /\ cursor' = NullCursor
    /\ all' = <<>>
    /\ totalSynced' = 0
    /\ i' = 0
    /\ attempt' = 0
    /\ src' = <<>>
    /\ hits' = <<>>
    /\ created' = <<>>
    /\ okCreates' = 0
    /\ dest' = <<>>
    /\ prior' = <<>>
    /\ UNCHANGED <<concVars, aggLocals, accessToken, storeUrl, stage, synced, returned, fatal,
                   httpAttempts, waits, connWrites, aggRuns, mails>>

\* lines 150-177 with sendEmail (lines 684-697)
NotifyFailure(r) ==
    /\ pc = "notify_fail"
    /\ mails' = Append(mails, "failure")
    /\ lastOp' = Op("email", NoStage, NullCursor, r)
    /\ ops' = ops \cup {"email"}
    /\ pc' = "done"
    /\ UNCHANGED <<concVars, aggLocals, destStore, lastWrite, accessToken, storeUrl, job, stage, stageLocals, synced,
                   returned, fatal, stageGhosts, connWrites,
                   errWrites, aggRuns>>

Next ==
    \/ \E cfg \in Configs : Start(cfg)
    \/ \E w \in HttpOutcomes : TestingCheckpoint(w)
    \/ \E r \in HttpOutcomes : Connect(r, FreshStore)
    \/ \E r \in QueryOutcomes : QueryAttempt(r)
    \/ \E w \in HttpOutcomes : InitialCheckpoint(w)
    \/ SkipRecord
    \/ \E r \in HttpOutcomes : CreateRecord(r)
    \/ \E w \in HttpOutcomes : ProgressCheckpoint(w)
    \/ StageReturn(FreshStore)
    \/ \E w \in HttpOutcomes : FinalizingCheckpoint(w)
    \/ \E r \in HttpOutcomes, ld \in RunLoads : Aggregate(r, ld)
    \/ \E r \in HttpOutcomes : PatchCustomer(r)
    \/ PassCustomer
    \/ AggregateReturn
    \/ \E w \in HttpOutcomes : Complete(w)
    \/ \E r \in HttpOutcomes : NotifySuccess(r)
    \/ \E w \in HttpOutcomes : ErrorWrite(w)
    \/ \E r \in HttpOutcomes : NotifyFailure(r)

Spec == Init /\ [][Next]_vars

\* every await of the run settles (the network call returns or fails, the
\* timer fires), so a run that can take a step takes one
FairSpec == Spec /\ WF_vars(Next)

\* ------------------------------------------- the aggregation on its own
\* a run that found nothing at the source has reported its finalizing
\* checkpoint and is about to call updateCustomerTotals
InitAgg ==
    /\ pc = "aggregate"
    /\ accessToken = TRUE
    /\ storeUrl = TRUE
    /\ job = [status |-> "pending", total_records |-> -1,
              sync_progress |-> <<[current_step |-> "Finalizing sync"]>>]
    /\ stage = NoStage
    /\ hasNextPage = TRUE
    /\ cursor = NullCursor
    /\ all = <<>>
    /\ totalSynced = 0
    /\ i = 0
    /\ attempt = 0
    /\ synced = [s \in Stages |-> 0]
    /\ src = <<>>
    /\ returned = Stages
    /\ fatal = "none"
    /\ lastOp = Op("checkpoint", NoStage, NullCursor, "ok")
    /\ lastWrite = StepOnly("Finalizing sync")
    /\ httpAttempts = 0
    /\ waits = 0
    /\ hits = <<>>
    /\ created = <<>>
    /\ okCreates = 0
    /\ ops = {"testing_checkpoint", "shop", "query", "stage_checkpoint",
              "finalizing_checkpoint"}
    /\ connWrites = 0
    /\ errWrites = 0
    /\ aggRuns = 0
    /\ mails = <<>>
    /\ dest = <<>>
    /\ prior = <<>>
    /\ customers = <<>>
    /\ interactions = <<>>
    /\ customerTotals = EmptyTotals
    /\ updated = 0
    /\ nextCustomer = 0
    /\ patched = <<>>
    /\ self = 1
    /\ parked = NoFrame
    /\ integrations = [n \in {IntegrationId(r) : r \in RunIds} |-> PendingJob]
    /\ entitiesAt = [sc \in Scopes |-> [s \in Stages |-> <<>>]]

\* updateCustomerTotals against every pair of loaded lists within the bounds
NextAgg ==
    \/ /\ pc = "aggregate"
       /\ \E r \in HttpOutcomes, ld \in Loads : Aggregate(r, ld)
    \/ \E r \in HttpOutcomes : PatchCustomer(r)
    \/ PassCustomer
    \/ AggregateReturn

SpecAgg == InitAgg /\ [][NextAgg]_vars

\* ------------------------------ the stages against a destination in use
\* a run all of whose calls succeed, against a destination that may hold the
\* records an earlier run created
CompleteConfig == [accessToken |-> TRUE, apiKey |-> FALSE, storeUrl |-> TRUE]

NextRerun ==
    \/ Start(CompleteConfig)
    \/ TestingCheckpoint("ok")
    \/ \E p \in PriorStores : Connect("ok", p)
    \/ QueryAttempt("ok")
    \/ InitialCheckpoint("ok")
    \/ SkipRecord
    \/ CreateRecord("ok")
    \/ ProgressCheckpoint("ok")
    \/ \E p \in PriorStores : StageReturn(p)

SpecRerun == Init /\ [][NextRerun]_vars

\* ---------------------------------------------------- two runs at once
\* the frame of the executing run, with the job status record and the
\* entity records it last saw at the destination
Frame ==
    [pc |-> pc, accessToken |-> accessToken, storeUrl |-> storeUrl,
     stage |-> stage, hasNextPage |-> hasNextPage, cursor |-> cursor,
     all |-> all, totalSynced |-> totalSynced, i |-> i, attempt |-> attempt,
     synced |-> synced, src |-> src, returned |-> returned, fatal |-> fatal,
     lastOp |-> lastOp, lastWrite |-> lastWrite,
     httpAttempts |-> httpAttempts, waits |-> waits, hits |-> hits,
     created |-> created, okCreates |-> okCreates, ops |-> ops,
     connWrites |-> connWrites, errWrites |-> errWrites,
     aggRuns |-> aggRuns, mails |-> mails, customers |-> customers,
     interactions |-> interactions, customerTotals |-> customerTotals,
     updated |-> updated, nextCustomer |-> nextCustomer,
     patched |-> patched, job |-> job, dest |-> dest, prior |-> prior]

\* the executing run is suspended at its await and the other run is resumed:
\* the locals of a call of runShopifySync and of the functions it calls are
\* its own, while the destination is addressed by the ids each call carries
Switch ==
    /\ parked # NoFrame
    /\ LET other == Other(self)
           jobs == [integrations EXCEPT ![IntegrationId(self)] = job]
           ents == IF stage \in Stages
                   THEN [entitiesAt EXCEPT ![Scope(self)][stage] = dest]
                   ELSE entitiesAt
       IN /\ self' = other
          /\ parked' = Frame
          /\ integrations' = jobs
          /\ entitiesAt' = ents
          /\ job' = jobs[IntegrationId(other)]
          /\ dest' = IF parked.stage \in Stages
                     THEN ents[Scope(other)][parked.stage]
                     ELSE <<>>
    /\ prior' = parked.prior
    /\ pc' = parked.pc
    /\ accessToken' = parked.accessToken
    /\ storeUrl' = parked.storeUrl
    /\ stage' = parked.stage
    /\ hasNextPage' = parked.hasNextPage
    /\ cursor' = parked.cursor
    /\ all' = parked.all
    /\ totalSynced' = parked.totalSynced
    /\ i' = parked.i
    /\ attempt' = parked.attempt
    /\ synced' = parked.synced
    /\ src' = parked.src
    /\ returned' = parked.returned
    /\ fatal' = parked.fatal
    /\ lastOp' = parked.lastOp
    /\ lastWrite' = parked.lastWrite
    /\ httpAttempts' = parked.httpAttempts
    /\ waits' = parked.waits
    /\ hits' = parked.hits
    /\ created' = parked.created
    /\ okCreates' = parked.okCreates
    /\ ops' = parked.ops
    /\ connWrites' = parked.connWrites
    /\ errWrites' = parked.errWrites
    /\ aggRuns' = parked.aggRuns
    /\ mails' = parked.mails
    /\ customers' = parked.customers
    /\ interactions' = parked.interactions
    /\ customerTotals' = parked.customerTotals
    /\ updated' = parked.updated
    /\ nextCustomer' = parked.nextCustomer
    /\ patched' = parked.patched

\* run 1 is executing and run 2 is suspended, each about to query the first
\* page of its products after having found no customers and no orders
InitConc ==
    /\ pc = "fetch"
    /\ accessToken = TRUE
    /\ storeUrl = TRUE
    /\ job = [status |-> "pending", total_records |-> -1,
              sync_progress |-> StageProgress("orders", 0, 0).sync_progress]
    /\ stage = "products"
    /\ hasNextPage = TRUE
    /\ cursor = NullCursor
    /\ all = <<>>
    /\ totalSynced = 0
    /\ i = 0
    /\ attempt = 0
    /\ synced = [s \in Stages |-> 0]
    /\ src = <<>>
    /\ returned = {"customers", "orders"}
    /\ fatal = "none"
    /\ lastOp = Op("checkpoint", "orders", NullCursor, "ok")
    /\ lastWrite = StageProgress("orders", 0, 0)
    /\ httpAttempts = 0
    /\ waits = 0
    /\ hits = <<>>
    /\ created = <<>>
    /\ okCreates = 0
    /\ ops = {"testing_checkpoint", "shop", "query", "stage_checkpoint"}
    /\ connWrites = 0
    /\ errWrites = 0
    /\ aggRuns = 0
    /\ mails = <<>>
    /\ dest = <<>>
    /\ prior = <<>>
    /\ customers = <<>>
    /\ interactions = <<>>
    /\ customerTotals = EmptyTotals
    /\ updated = 0
    /\ nextCustomer = 0
    /\ patched = <<>>
    /\ self = 1
    /\ parked = Frame
    /\ integrations = [n \in {IntegrationId(r) : r \in RunIds} |-> job]
    /\ entitiesAt = [sc \in Scopes |-> [s \in Stages |-> <<>>]]

\* the steps of two runs all of whose calls succeed, in any interleaving
NextConc ==
    \/ QueryAttempt("ok")
    \/ InitialCheckpoint("ok")
    \/ SkipRecord
    \/ CreateRecord("ok")
    \/ ProgressCheckpoint("ok")
    \/ StageReturn(FreshStore)
    \/ FinalizingCheckpoint("ok")
    \/ Aggregate("ok", ListRecords(Scope(self)))
    \/ PatchCustomer("ok")
    \/ PassCustomer
    \/ AggregateReturn
    \/ Complete("ok")
    \/ NotifySuccess("ok")
    \/ Switch

SpecConc == InitConc /\ [][NextConc]_vars

\* ---------------------------------------------------------------- claims
\* what the claims call a record with a valid id (and, for orders, an
\* associated customer)
ValidRecord(s, e) ==
    /\ ~e.node.isNull
    /\ e.node.id # NoId
    /\ (s = "orders" => e.node.customer)

RECURSIVE ValidIds(_, _)
ValidIds(s, edges) ==
    IF edges = <<>> THEN <<>>
    ELSE (IF ValidRecord(s, edges[1])
          THEN <<edges[1].node.id[Len(edges[1].node.id)]>> ELSE <<>>)
         \o ValidIds(s, Tail(edges))

RECURSIVE EdgeTotal(_)
EdgeTotal(pages) ==
    IF pages = <<>> THEN 0 ELSE Len(pages[1].edges) + EdgeTotal(Tail(pages))

\* the stages the claims put before stage s
Before(s) == CASE s = "customers" -> {}
               [] s = "orders" -> {"customers"}
               [] s = "products" -> {"customers", "orders"}

StageOps == {"query", "create", "stage_checkpoint", "finalizing_checkpoint",
             "aggregate"}
ErrorPath == {"catch", "notify_fail", "done"}

\* C1: when the connectivity check, the three stages and the aggregation have
\* completed without a fatal error, the run ends with the connected write as
\* its one and last write to the job status record: status connected,
\* total_records the sum of the three stage counts, sync_progress null.
C1_EndsConnected ==
    (pc = "done" /\ returned = Stages /\ "aggregate" \in ops
       /\ fatal # "bulk_load")
    => /\ connWrites = 1
       /\ errWrites = 0
       /\ lastWrite = ConnectedData
       /\ job.status = "connected"
       /\ job.total_records
            = synced["customers"] + synced["orders"] + synced["products"]
       /\ job.sync_progress = Null

\* C2: after any fatal error the run attempts exactly one write of
\* {status: error, sync_progress: null}; whatever the outcome of that write,
\* the run goes on to the failure notification and ends.
C2_ErrorWriteBestEffort ==
    /\ (fatal # "none" => pc \in ErrorPath)
    /\ (pc = "catch" => errWrites = 0 /\ fatal # "none")
    /\ (pc = "notify_fail"
          => /\ errWrites = 1
             /\ lastOp.kind = "error"
             /\ lastWrite = [status |-> "error", sync_progress |-> Null]
             /\ mails = <<>>
             /\ (lastOp.outcome = "ok"
                   => job.status = "error" /\ job.sync_progress = Null))
    /\ (pc = "done" /\ fatal # "none"
          => /\ errWrites = 1
             /\ lastWrite = [status |-> "error", sync_progress |-> Null]
             /\ mails = <<"failure">>)

\* a fetch exhausted its retries, the error write then failed, and the run
\* still sent its notification and ended
C2_Witness ==
    /\ pc = "done"
    /\ fatal = "fetch"
    /\ errWrites = 1
    /\ job.status # "error"
    /\ mails = <<"failure">>

\* what C3 says of a run whose configuration lacks the credential or the
\* endpoint, or whose connectivity call failed: no stage was attempted
NoStageAttempted ==
    /\ ops \cap StageOps = {}
    /\ returned = {}
    /\ aggRuns = 0

ConfigLacking == pc # "idle" /\ (~accessToken \/ ~storeUrl)

\* C3 as stated: with a missing credential or endpoint, or a failed
\* connectivity call, no stage is attempted and the job status is set to
\* error; for a missing configuration not even the connectivity call or the
\* testing-connection checkpoint is made.
C3_StatusSetToError ==
    (pc = "done" /\ (ConfigLacking \/ fatal = "connectivity"))
    => /\ NoStageAttempted
       /\ job.status = "error"
       /\ (ConfigLacking => ops \cap {"shop", "testing_checkpoint"} = {})

\* C3 (amended): with a missing credential or endpoint, or a failed
\* connectivity call, no stage is attempted (no paginated query, no create,
\* no stage or finalizing checkpoint, no aggregation) and the run attempts
\* the error write once, the job status being error when that write
\* succeeds; for a missing configuration not even the connectivity call or
\* the testing-connection checkpoint is made.
C3_NoStageAttempted ==
    (ConfigLacking \/ fatal = "connectivity")
    => /\ NoStageAttempted
       /\ pc \in ErrorPath
       /\ connWrites = 0
       /\ (ConfigLacking => ops \cap {"shop", "testing_checkpoint"} = {})
       /\ (pc \in {"notify_fail", "done"}
             => /\ errWrites = 1
                /\ lastWrite = [status |-> "error", sync_progress |-> Null])
       /\ (pc = "notify_fail" /\ lastOp.outcome = "ok"
             => job.status = "error")

\* the store endpoint is missing and the run has ended with status error
C3_Witness ==
    /\ pc = "done"
    /\ accessToken
    /\ ~storeUrl
    /\ job.status = "error"

\* C4: a call of a stage (query, create, checkpoint) is issued only when
\* exactly the stages before it have returned, and the aggregation runs at
\* most once, only when all three stages have returned and nothing fatal
\* has happened.
C4_StagesInOrder ==
    [][/\ (lastOp' # lastOp /\ lastOp'.stage \in Stages)
            => returned' = Before(lastOp'.stage)
       /\ (aggRuns' # aggRuns)
            => (aggRuns = 0 /\ returned = Stages /\ fatal = "none")]_vars

\* the aggregation has run after all three stages returned
C4_Witness ==
    /\ aggRuns = 1
    /\ returned = Stages
    /\ synced["customers"] > 0
    /\ synced["products"] > 0

\* C5: the count a stage returns equals the number of its createRecord calls
\* that were answered ok.
C5_CountIsOkCreates ==
    (pc = "persist" /\ i = Len(all)) => totalSynced = okCreates

\* C6: in the persist loop every valid record handled so far had exactly one
\* createRecord attempt, in fetch order, whatever the outcomes of the
\* creates, and a create never takes the run out of the loop.
C6_EveryRecordAttempted ==
    /\ (pc = "persist" => created = ValidIds(stage, SubSeq(all, 1, i)))
    /\ (pc = "checkpoint" => created = ValidIds(stage, SubSeq(all, 1, i + 1)))
    /\ (lastOp.kind = "create" => pc \notin ErrorPath /\ fatal = "none")

\* two records were fetched, both creates failed at the transport, and the
\* loop has reached its end
C6_Witness ==
    /\ pc = "persist"
    /\ i = Len(all)
    /\ Len(created) = 2
    /\ totalSynced = 0

\* C7: one call of shopifyGraphQLQuery makes at most Retries + 1 attempts and
\* at most Retries backoff waits; its error is raised on attempt
\* Retries + 1 with no wait after it, and aborts the stage and the job.
C7_RetryCeiling ==
    /\ httpAttempts <= Retries + 1
    /\ waits <= Retries
    /\ (pc = "fetch" => httpAttempts <= Retries)
    /\ (fatal = "fetch"
          => /\ httpAttempts = Retries + 1
             /\ waits = Retries
             /\ pc \in ErrorPath
             /\ stage \in Stages
             /\ stage \notin returned
             /\ connWrites = 0
             /\ aggRuns = 0
             /\ job.status # "connected")

\* every attempt of a page request failed and the job has ended
C7_Witness ==
    /\ pc = "done"
    /\ fatal = "fetch"
    /\ httpAttempts = Retries + 1
    /\ job.status = "error"

\* C8: an attempt answered with API-level errors none of which is a
\* throttling error raises at once: no further attempt, the stage aborts.
C8_ApiErrorFatalAtOnce ==
    (lastOp.kind = "query" /\ lastOp.outcome = "api_error")
    => (pc = "catch" /\ fatal = "fetch")

\* C9: a throttled attempt leaves the stage's cursor and record list as they
\* were and uses up one retry, and the request that follows it carries the
\* same cursor.
C9_ThrottleKeepsCursor ==
    [][/\ (lastOp'.kind = "query" /\ lastOp'.outcome = "throttled"
             /\ (waits' # waits \/ pc' # pc))
            => /\ cursor' = cursor
               /\ all' = all
               /\ lastOp'.cursor = cursor
               /\ (pc' = "fetch" => attempt' = attempt + 1)
       /\ (lastOp.kind = "query" /\ lastOp.outcome = "throttled"
             /\ pc = "fetch")
            => /\ cursor = lastOp.cursor
               /\ lastOp'.kind = "query"
               /\ lastOp'.cursor = lastOp.cursor]_vars

\* the request for the second page was throttled and is about to be retried
C9_Witness ==
    /\ pc = "fetch"
    /\ lastOp.kind = "query"
    /\ lastOp.outcome = "throttled"
    /\ cursor # NullCursor
    /\ all # <<>>
    /\ attempt = 2

\* C10: the fetch loop starts with a null cursor, is served each page of the
\* chain exactly once up to the first page without a next page, and the
\* accumulated list is the concatenation of the pages' edges in page order.
C10_PagesConcatenated ==
    /\ (pc \in {"fetch", "count", "persist", "checkpoint"}
          => /\ all = Concat(src)
             /\ Len(all) = EdgeTotal(src)
             /\ Len(hits) = Len(src)
             /\ \A k \in 1..Len(src) : hits[k] = 1
             /\ \A k \in 1..(Len(src) - 1) : src[k].hasNextPage)
    /\ (pc = "fetch"
          => /\ (src = <<>> <=> cursor = NullCursor)
             /\ \A k \in 1..Len(src) : src[k].hasNextPage)
    /\ (pc \in {"count", "persist", "checkpoint"}
          => /\ src # <<>>
             /\ ~src[Len(src)].hasNextPage)

\* two pages of one record each were fetched, with a retried request
C10_Witness ==
    /\ pc = "count"
    /\ stage = "customers"
    /\ "backoff" \in ops
    /\ Len(src) = 2
    /\ Len(src[1].edges) = 1
    /\ Len(src[2].edges) = 1

\* C11 (the part about the final record): once the last record of a stage's
\* list has been handled, the checkpoint reported last carries the number of
\* fetched records as total and the number of records persisted as
\* processed, whichever records were skipped or failed to persist.
C11_FinalCheckpointReported ==
    (pc = "persist" /\ i = Len(all) /\ Len(all) > 0)
    => /\ lastWrite = StageProgress(stage, Len(all), totalSynced)
       /\ "stage_checkpoint" \in ops

\* C12: an order without an associated customer is passed over: no
\* createRecord call, no change of the synced count, no error, and the loop
\* goes on with the next order.
C12_OrderWithoutCustomerSkipped ==
    [][(pc = "persist" /\ stage = "orders" /\ i < Len(all)
          /\ ~all[i + 1].node.customer)
        => /\ created' = created
           /\ okCreates' = okCreates
           /\ totalSynced' = totalSynced
           /\ lastOp' = lastOp
           /\ fatal' = fatal
           /\ pc' = "persist"
           /\ i' = i + 1]_vars

\* the first order had an id but no customer, the second was persisted, and
\* the loop has reached its end
C12_Witness ==
    /\ pc = "persist"
    /\ stage = "orders"
    /\ Len(all) = 2
    /\ i = 2
    /\ all[1].node.id # NoId
    /\ ~all[1].node.customer
    /\ created = <<2>>
    /\ totalSynced = 1

\* C14: a failed write of the job status record (testing-connection, stage
\* initial, periodic or final stage checkpoint, finalizing, connected) is
\* only logged: the run is not taken to its error path by it.
C14_StatusWriteNeverEscalated ==
    (lastOp.kind \in {"checkpoint", "complete"} /\ lastOp.outcome # "ok")
    => (pc \notin ErrorPath /\ fatal = "none")

\* C17: no createRecord call of a stage is made before the page without a
\* next page has been fetched, and between the end of the fetch and the
\* first createRecord the stage reports its initial checkpoint, with total
\* the number of fetched records and processed 0.
C17_TwoPass ==
    /\ (pc \in {"fetch", "count"} /\ stage \in Stages
          => created = <<>> /\ totalSynced = 0 /\ i = 0)
    /\ (created # <<>>
          => /\ pc \in {"persist", "checkpoint"}
             /\ src # <<>>
             /\ ~src[Len(src)].hasNextPage
             /\ Len(all) = EdgeTotal(src))
    /\ (pc = "persist" /\ created = <<>>
          => /\ lastOp = Op("checkpoint", stage, NullCursor, "ok")
             /\ lastWrite = [sync_progress |->
                               <<[current_step |-> StepName(stage),
                                  total |-> EdgeTotal(src),
                                  processed |-> 0]>>])

\* two pages were fetched before the first record was persisted
C17_Witness ==
    /\ pc = "persist"
    /\ stage = "customers"
    /\ Len(src) = 2
    /\ src[1].edges # <<>>
    /\ Len(created) = 1
    /\ i = 1

\* the payload is a checkpoint of a stage
IsStageWrite(w) ==
    /\ "sync_progress" \in DOMAIN w
    /\ w.sync_progress # Null
    /\ "total" \in DOMAIN w.sync_progress[1]

C19_ClearedAfterStage ==
    (lastOp.stage \in returned /\ pc \notin ErrorPath)
    => job.sync_progress = Null

\* C19 (amended): a successful report replaces sync_progress by its payload;
\* the return of a stage leaves the job status record as it is, so that the
\* stage's last checkpoint stays until the next report replaces it;
\* sync_progress is cleared by the connected write and the error write only,
\* when they succeed.
C19_ClearedByTerminalWrite ==
    [][/\ (returned' # returned => job' = job)
       /\ (job'.sync_progress # job.sync_progress
             => /\ lastOp'.outcome = "ok"
                /\ job'.sync_progress = lastWrite'.sync_progress)
       /\ (job'.sync_progress = Null /\ job.sync_progress # Null
             => lastOp'.kind \in {"complete", "error"})
       /\ (lastOp' # lastOp /\ lastOp'.kind \in {"complete", "error"}
             /\ lastOp'.outcome = "ok"
             => job'.sync_progress = Null)]_vars

\* the customers stage has returned, the orders stage has reported nothing,
\* and sync_progress still holds the last checkpoint of the customers stage
C19_Witness ==
    /\ pc = "fetch"
    /\ stage = "orders"
    /\ src = <<>>
    /\ job.sync_progress
         = <<[current_step |-> "Syncing customers", total |-> 1,
              processed |-> 1]>>

\* C20: after a successful connected write the run writes nothing more to
\* the job status record and makes no call but the notification; after the
\* attempt of the error write likewise; a run with a successful connected
\* write makes no error write.
C20_TerminalWriteIsLast ==
    [][/\ (job.status = "connected"
             => /\ job' = job
                /\ lastWrite' = lastWrite
                /\ connWrites' = connWrites
                /\ errWrites' = 0
                /\ (lastOp' # lastOp => lastOp'.kind = "email"))
       /\ (errWrites >= 1
             => /\ job' = job
                /\ lastWrite' = lastWrite
                /\ connWrites' = connWrites
                /\ errWrites' = errWrites
                /\ (lastOp' # lastOp => lastOp'.kind = "email"))]_vars

\* the connected write succeeded, the success notification failed at the
\* transport, and the run ended with no error write
C20_Witness ==
    /\ pc = "done"
    /\ job.status = "connected"
    /\ lastOp = Op("email", NoStage, NullCursor, "transport")
    /\ errWrites = 0
    /\ mails = <<"success">>

\* C15: every run ends, after the connected write and the success
\* notification or after the error write and the failure notification.
C15_RunEnds ==
    <>(/\ pc = "done"
       /\ \/ (connWrites = 1 /\ errWrites = 0 /\ mails = <<"success">>)
          \/ (errWrites = 1 /\ mails = <<"failure">>))

\* a run that went through retries, all its pages and records, and ended
C15_Witness ==
    /\ pc = "done"
    /\ "backoff" \in ops
    /\ synced["customers"] = MaxNodes
    /\ synced["products"] > 0
    /\ mails = <<"success">>

\* the sum of value over the interactions of a customer id
RECURSIVE SumValue(_, _)
SumValue(xs, cid) ==
    IF xs = <<>> THEN 0
    ELSE (IF Head(xs).customer_id = cid THEN Head(xs).value ELSE 0)
         + SumValue(Tail(xs), cid)

\* one patch, in list order, for each customer whose sum exceeds zero
RECURSIVE ExpectedPatches(_, _)
ExpectedPatches(cs, xs) ==
    IF cs = <<>> THEN <<>>
    ELSE (IF SumValue(xs, Head(cs).customer_id) > 0
          THEN <<[id |-> Head(cs).id,
                  total_value |-> SumValue(xs, Head(cs).customer_id)]>>
          ELSE <<>>)
         \o ExpectedPatches(Tail(cs), xs)

\* C13: for every pair of loaded lists the total of each customer id is the
\* sum of value over the interactions with that customer id, and the
\* patches issued so far are, for the loaded customers handled so far, one
\* patch of total_value to that sum per customer whose sum exceeds zero and
\* none for the others.
C13_TotalsPatched ==
    pc = "patching"
    => /\ \A c \in CustomerIds :
            TotalOf(customerTotals, c) = SumValue(interactions, c)
       /\ patched = ExpectedPatches(SubSeq(customers, 1, nextCustomer),
                                    interactions)

\* two purchases of one customer were added up and patched, and the other
\* loaded customer, without purchases, was passed over
C13_Witness ==
    /\ pc = "patching"
    /\ Len(customers) = 2
    /\ nextCustomer = 2
    /\ Len(interactions) = 2
    /\ patched = <<[id |-> 1, total_value |-> 10]>>

Count(q, x) == Cardinality({j \in 1..Len(q) : q[j] = x})

\* C16: a stage issues source queries, checkpoints and creates only; with
\* all creates succeeding, every valid source record adds one record to
\* the destination whatever the destination held before, so that a record
\* an earlier run had created is there twice when the stage ends.
C16_BlindCreate ==
    /\ ops \subseteq {"testing_checkpoint", "shop", "query",
                       "stage_checkpoint", "create"}
    /\ (pc \in {"persist", "checkpoint"} => dest = prior \o created)
    /\ (pc = "persist" /\ i = Len(all)
          => \A n \in 1..MaxNodes :
                Count(dest, n)
                  = Count(prior, n) + Count(ValidIds(stage, all), n))

\* the destination held one record for each of the two source records and
\* holds two for each at the end of the stage
C16_Witness ==
    /\ pc = "persist"
    /\ i = Len(all)
    /\ Len(all) = 2
    /\ prior = <<1, 2>>
    /\ dest = <<1, 2, 1, 2>>

\* C21: a run attempts one terminal notification and is over with it: the
\* success notification right after the successful connected write, the
\* failure notification right after the attempt of the error write, never
\* a second one; whatever the outcome of the send, the step leaves the job
\* status record and the run's outcome as they were; no run ends without
\* its notification.
C21_OneNotification ==
    [][/\ Len(mails') <= 1
       /\ (mails' # mails
             => /\ mails = <<>>
                /\ lastOp'.kind = "email"
                /\ job' = job
                /\ fatal' = fatal
                /\ pc' = "done"
                /\ (mails' = <<"success">>
                      <=> /\ lastOp = Op("complete", NoStage, NullCursor, "ok")
                          /\ job.status = "connected"
                          /\ fatal = "none")
                /\ (mails' = <<"failure">>
                      <=> lastOp.kind = "error" /\ fatal # "none"))
       /\ (pc' = "done" => Len(mails') = 1)]_vars

\* the error write succeeded, the failure notification was answered with an
\* HTTP error, and the run ended with status error
C21_Witness ==
    /\ pc = "done"
    /\ mails = <<"failure">>
    /\ lastOp = Op("email", NoStage, NullCursor, "http_error")
    /\ job.status = "error"
    /\ fatal = "connectivity"

====
